---- MODULE Spec2Model ----
(***************************************************************************)
(* A model of the generic web scraper (scraper.py, main.py): the URL       *)
(* classifier, the title strategy, the week-window test, the browser       *)
(* session and the site/batch orchestration.                               *)
(*                                                                         *)
(* Strings are TLA+ strings; TLC evaluates Len, SubSeq and \o on them, so  *)
(* the regular expressions of the source are evaluated character by        *)
(* character.                                                              *)
(***************************************************************************)
EXTENDS Integers, Sequences, FiniteSets, TLC

(***************************************************************************)
(* Strings                                                                 *)
(***************************************************************************)
Char(s, i) == SubSeq(s, i, i)

Digits == {"0", "1", "2", "3", "4", "5", "6", "7", "8", "9"}

LowerAlpha ==
  {"a", "b", "c", "d", "e", "f", "g", "h", "i", "j", "k", "l", "m",
   "n", "o", "p", "q", "r", "s", "t", "u", "v", "w", "x", "y", "z"}

UpperAlpha ==
  {"A", "B", "C", "D", "E", "F", "G", "H", "I", "J", "K", "L", "M",
   "N", "O", "P", "Q", "R", "S", "T", "U", "V", "W", "X", "Y", "Z"}

\* \w of the re module, over the ASCII alphabet of the model
WordChars == LowerAlpha \cup UpperAlpha \cup Digits \cup {"_"}

\* urllib.parse.scheme_chars
SchemeChars == LowerAlpha \cup UpperAlpha \cup Digits \cup {"+", "-", "."}

LowerChar(c) ==
  CASE c = "A" -> "a" [] c = "B" -> "b" [] c = "C" -> "c" [] c = "D" -> "d"
    [] c = "E" -> "e" [] c = "F" -> "f" [] c = "G" -> "g" [] c = "H" -> "h"
    [] c = "I" -> "i" [] c = "J" -> "j" [] c = "K" -> "k" [] c = "L" -> "l"
    [] c = "M" -> "m" [] c = "N" -> "n" [] c = "O" -> "o" [] c = "P" -> "p"
    [] c = "Q" -> "q" [] c = "R" -> "r" [] c = "S" -> "s" [] c = "T" -> "t"
    [] c = "U" -> "u" [] c = "V" -> "v" [] c = "W" -> "w" [] c = "X" -> "x"
    [] c = "Y" -> "y" [] c = "Z" -> "z" [] OTHER -> c

\* str.lower()
RECURSIVE Lower(_)
Lower(s) == IF Len(s) = 0 THEN "" ELSE LowerChar(Char(s, 1)) \o Lower(Tail(s))

\* str.startswith / the `in` operator on strings
StartsWith(s, p) == Len(s) >= Len(p) /\ SubSeq(s, 1, Len(p)) = p

Contains(s, p) ==
  \E i \in 1..(Len(s) - Len(p) + 1) : SubSeq(s, i, i + Len(p) - 1) = p

\* str.find(c) + 1 for a set of characters: the first position holding one
\* of them, 0 when there is none
FirstIdx(s, cs) ==
  IF \E i \in 1..Len(s) : Char(s, i) \in cs
    THEN CHOOSE i \in 1..Len(s) :
           /\ Char(s, i) \in cs
           /\ \A j \in 1..(i - 1) : Char(s, j) \notin cs
    ELSE 0

\* the number of positions of s holding the character c
CountChar(s, c) == Cardinality({i \in 1..Len(s) : Char(s, i) = c})

(***************************************************************************)
(* re.search over the dialect the pattern tables use.  A pattern is a set  *)
(* of alternatives (the expansions of its optional groups) and an end      *)
(* anchor; inside an alternative "D" stands for \d.  The patterns are      *)
(* searched in url.lower(), which holds no upper-case letter.              *)
(***************************************************************************)
Re(anch, alts) == [kind |-> "re", anch |-> anch, alts |-> alts]

MatchAt(s, i, p) ==
  /\ i >= 1
  /\ i + Len(p) - 1 <= Len(s)
  /\ \A k \in 1..Len(p) :
       IF Char(p, k) = "D" THEN Char(s, i + k - 1) \in Digits
                           ELSE Char(s, i + k - 1) = Char(p, k)

\* r'/\w+/\w+': a slash, a run of word characters, a slash, a word character
WordPair == [kind |-> "wordpair"]

\* r'/[^/]{10,}': a slash followed by at least MinLongSegment other characters
LongSegment == [kind |-> "longsegment"]

MinLongSegment == 10

ReSearch(re, s) ==
  CASE re.kind = "re" ->
         \E p \in re.alts :
           IF re.anch THEN MatchAt(s, Len(s) - Len(p) + 1, p)
                      ELSE \E i \in 1..(Len(s) - Len(p) + 1) : MatchAt(s, i, p)
    [] re.kind = "wordpair" ->
         \E i \in 1..Len(s) : \E j \in (i + 2)..(Len(s) - 1) :
           /\ Char(s, i) = "/"
           /\ \A k \in (i + 1)..(j - 1) : Char(s, k) \in WordChars
           /\ Char(s, j) = "/"
           /\ Char(s, j + 1) \in WordChars
    [] re.kind = "longsegment" ->
         \E i \in 1..(Len(s) - MinLongSegment) :
           /\ Char(s, i) = "/"
           /\ \A k \in 1..MinLongSegment : Char(s, i + k) # "/"

(***************************************************************************)
(* urllib.parse.urlparse: netloc, path and query of a URL                  *)
(***************************************************************************)
\* the URL after its scheme and the colon, when it has a scheme
AfterScheme(url) ==
  LET i == FirstIdx(url, {":"})
  IN  IF /\ i > 1
         /\ Char(url, 1) \in LowerAlpha \cup UpperAlpha
         /\ \A k \in 1..(i - 1) : Char(url, k) \in SchemeChars
        THEN SubSeq(url, i + 1, Len(url))
        ELSE url

HasNetloc(url) == StartsWith(AfterScheme(url), "//")

Netloc(url) ==
  LET r == AfterScheme(url)
  IN  IF ~StartsWith(r, "//") THEN ""
      ELSE LET rest == SubSeq(r, 3, Len(r))
               d    == FirstIdx(rest, {"/", "?", "#"})
           IN  IF d = 0 THEN rest ELSE SubSeq(rest, 1, d - 1)

AfterNetloc(url) ==
  LET r == AfterScheme(url)
  IN  IF ~StartsWith(r, "//") THEN r
      ELSE LET rest == SubSeq(r, 3, Len(r))
               d    == FirstIdx(rest, {"/", "?", "#"})
           IN  IF d = 0 THEN "" ELSE SubSeq(rest, d, Len(rest))

NoFragment(s) ==
  LET h == FirstIdx(s, {"#"}) IN IF h = 0 THEN s ELSE SubSeq(s, 1, h - 1)

UrlPath(url) ==
  LET s == NoFragment(AfterNetloc(url))
      q == FirstIdx(s, {"?"})
  IN  IF q = 0 THEN s ELSE SubSeq(s, 1, q - 1)

UrlQuery(url) ==
  LET s == NoFragment(AfterNetloc(url))
      q == FirstIdx(s, {"?"})
  IN  IF q = 0 THEN "" ELSE SubSeq(s, q + 1, Len(s))

\* the host name of a URL: its netloc without user information and port,
\* in lower case
HostName(url) ==
  LET n  == Netloc(url)
      a  == FirstIdx(n, {"@"})
      h  == IF a = 0 THEN n ELSE SubSeq(n, a + 1, Len(n))
      c  == FirstIdx(h, {":"})
  IN  Lower(IF c = 0 THEN h ELSE SubSeq(h, 1, c - 1))

\* len([part for part in path.split('/') if part]): the number of maximal
\* runs of characters other than "/"
PathParts(path) ==
  Cardinality({i \in 1..Len(path) :
                 /\ Char(path, i) # "/"
                 /\ (i = 1 \/ Char(path, i - 1) = "/")})

\* len(query.split('&'))
QueryParts(query) == CountChar(query, "&") + 1

(***************************************************************************)
(* The URL classifier, GenericWebScraper._is_likely_article_url            *)
(***************************************************************************)
definite_excludes ==
  <<
    Re(FALSE, {"/search"}),
    Re(FALSE, {"/login"}),
    Re(FALSE, {"/register"}),
    Re(FALSE, {"/signup"}),
    Re(TRUE, {"/contact"}),
    Re(TRUE, {"/about"}),
    Re(FALSE, {"/privacy"}),
    Re(FALSE, {"/terms"}),
    Re(FALSE, {"/cookie"}),
    Re(FALSE, {"/legal"}),
    Re(FALSE, {"/sitemap"}),
    Re(FALSE, {"/robots.txt"}),
    Re(FALSE, {"/favicon"}),
    Re(FALSE, {".css"}),
    Re(FALSE, {".js"}),
    Re(FALSE, {".pdf"}),
    Re(FALSE, {".doc"}),
    Re(FALSE, {".zip"}),
    Re(FALSE, {".exe"}),
    Re(FALSE, {"/feed"}),
    Re(FALSE, {"/rss"}),
    Re(TRUE, {"/tag/", "/tags/"}),
    Re(TRUE, {"/category/"}),
    Re(TRUE, {"/author/"}),
    Re(TRUE, {"/user/"}),
    Re(FALSE, {"/wp-admin"}),
    Re(FALSE, {"/admin"}),
    Re(FALSE, {"/dashboard"}),
    Re(FALSE, {"/settings"}),
    Re(FALSE, {"#"}),
    Re(FALSE, {"mailto:"}),
    Re(FALSE, {"tel:"}),
    Re(FALSE, {"ftp:"}),
    Re(FALSE, {"/print"}),
    Re(TRUE, {"/download", "/download.htm", "/download.html",
              "/downloads", "/downloads.htm", "/downloads.html"}),
    Re(TRUE, {"/newsletter", "/newsletter.htm", "/newsletter.html"}),
    Re(TRUE, {"/fairs", "/fairs.htm", "/fairs.html"}),
    Re(FALSE, {"/data-protection"}),
    Re(FALSE, {"/driving-directions"}),
    Re(FALSE, {"/safety-data-sheets"}),
    Re(FALSE, {"/datanorm-gaeb"}),
    Re(FALSE, {"/invitation-to-tender"}),
    Re(FALSE, {"/warning-placard"}),
    Re(FALSE, {"/helpful-forms"}),
    Re(TRUE, {"/technical-information", "/technical-information.htm",
              "/technical-information.html"}),
    Re(TRUE, {"/download-brochures", "/download-brochures.htm",
              "/download-brochures.html"}),
    Re(TRUE, {"/index.htm", "/index.html"}),
    Re(TRUE, {"/"}),
    Re(TRUE, {"/en", "/en/"})
  >>

strong_signals ==
  <<
    Re(FALSE, {"/article/"}),
    Re(FALSE, {"/post/"}),
    Re(FALSE, {"/news/"}),
    Re(FALSE, {"/blog/"}),
    Re(FALSE, {"/story/"}),
    Re(FALSE, {"/read/"}),
    Re(FALSE, {"/view/"}),
    Re(FALSE, {"/details/"}),
    Re(FALSE, {"/full/"}),
    Re(FALSE, {"/referenzen/"}),
    Re(FALSE, {"/DDDD/DD/DD/"}),
    Re(FALSE, {"/DDDD/DD/"}),
    Re(FALSE, {"/DDDD/"}),
    Re(FALSE, {"-DDDD-DD-DD"}),
    Re(FALSE, {"-DDDD-DD"}),
    Re(FALSE, {"-DDDD"}),
    Re(FALSE, {"/project-of-the-month", "/projects-of-the-month"})
  >>

medium_signals ==
  <<
    Re(TRUE, {".html"}),
    Re(TRUE, {".htm"}),
    WordPair,
    LongSegment,
    Re(FALSE, {"/entry/"}),
    Re(FALSE, {"/item/"}),
    Re(FALSE, {"/content/"}),
    Re(FALSE, {"/page/"})
  >>

content_keywords ==
  {"breaking", "exclusive", "report", "analysis", "interview",
   "feature", "opinion", "editorial", "review", "update",
   "announcement", "launch", "release", "study", "research",
   "restoration", "designer", "defense", "tower", "underfloor",
   "heating", "kindergarten", "vienna", "france", "tamasi",
   "banking", "aegean", "hotel", "church", "refurbishment",
   "dream", "sustainable", "living"}

\* `for pattern in table: if re.search(pattern, s): return ...`: whether the
\* loop finds a matching entry at or after position k
RECURSIVE SearchFrom(_, _, _)
SearchFrom(table, k, s) ==
  IF k > Len(table) THEN FALSE
  ELSE IF ReSearch(table[k], s) THEN TRUE
  ELSE SearchFrom(table, k + 1, s)

\* the classifier with the strong signals consulted before the excludes
ClassifyStrongFirst(url, base_url, excludes, strong) ==
  LET url_lower == Lower(url)
      has_medium_signal ==
        \E k \in 1..Len(medium_signals) : ReSearch(medium_signals[k], url_lower)
      has_content_keyword ==
        \E keyword \in content_keywords : Contains(url_lower, keyword)
  IN  IF url = "" \/ StartsWith(url, "#") \/ Contains(url, "javascript:")
        THEN FALSE
      ELSE IF Netloc(url) # Netloc(base_url) THEN FALSE
      ELSE IF SearchFrom(strong, 1, url_lower) THEN TRUE
      ELSE IF SearchFrom(excludes, 1, url_lower) THEN FALSE
      ELSE IF PathParts(UrlPath(url)) < 2 /\ ~has_content_keyword THEN FALSE
      ELSE IF QueryParts(UrlQuery(url)) > 3 THEN FALSE
      ELSE has_medium_signal \/ has_content_keyword

\* the classifier without the same-domain test
ClassifyAnyDomain(url, base_url, excludes, strong) ==
  LET url_lower == Lower(url)
      has_medium_signal ==
        \E k \in 1..Len(medium_signals) : ReSearch(medium_signals[k], url_lower)
      has_content_keyword ==
        \E keyword \in content_keywords : Contains(url_lower, keyword)
  IN  IF url = "" \/ StartsWith(url, "#") \/ Contains(url, "javascript:")
        THEN FALSE
      ELSE IF SearchFrom(excludes, 1, url_lower) THEN FALSE
      ELSE IF SearchFrom(strong, 1, url_lower) THEN TRUE
      ELSE IF PathParts(UrlPath(url)) < 2 /\ ~has_content_keyword THEN FALSE
      ELSE IF QueryParts(UrlQuery(url)) > 3 THEN FALSE
      ELSE has_medium_signal \/ has_content_keyword

\* the classifier over given exclude and strong-signal tables
ClassifyWith(url, base_url, excludes, strong) ==
  LET url_lower == Lower(url)
      has_medium_signal ==
        \E k \in 1..Len(medium_signals) : ReSearch(medium_signals[k], url_lower)
      has_content_keyword ==
        \E keyword \in content_keywords : Contains(url_lower, keyword)
  IN  IF url = "" \/ StartsWith(url, "#") \/ Contains(url, "javascript:")
        THEN FALSE
      ELSE IF Netloc(url) # Netloc(base_url) THEN FALSE
      ELSE IF SearchFrom(excludes, 1, url_lower) THEN FALSE
      ELSE IF SearchFrom(strong, 1, url_lower) THEN TRUE
      ELSE IF PathParts(UrlPath(url)) < 2 /\ ~has_content_keyword THEN FALSE
      ELSE IF QueryParts(UrlQuery(url)) > 3 THEN FALSE
      ELSE has_medium_signal \/ has_content_keyword

_is_likely_article_url(url, base_url) ==
  ClassifyWith(url, base_url, definite_excludes, strong_signals)

\* urljoin(base_url, href) for an absolute href and for a root-relative one
urljoin(base_url, href) ==
  IF HasNetloc(href) \/ ~StartsWith(href, "/") THEN href
  ELSE LET c == FirstIdx(base_url, {":"})
       IN  SubSeq(base_url, 1, c) \o "//" \o Netloc(base_url) \o href

(***************************************************************************)
(* The title strategy, GenericWebScraper._extract_title_generic            *)
(***************************************************************************)
\* what a BeautifulSoup lookup yields: no element, or an element with its
\* content attribute ("" when it has none) and its text
NoElement   == [found |-> FALSE, content |-> "", text |-> ""]
Meta(c)     == [found |-> TRUE, content |-> c, text |-> ""]
Element(t)  == [found |-> TRUE, content |-> "", text |-> t]

\* str.strip() over the blank
RECURSIVE LStrip(_)
LStrip(s) == IF Len(s) > 0 /\ Char(s, 1) = " " THEN LStrip(Tail(s)) ELSE s

RECURSIVE RStrip(_)
RStrip(s) ==
  IF Len(s) > 0 /\ Char(s, Len(s)) = " "
    THEN RStrip(SubSeq(s, 1, Len(s) - 1))
    ELSE s

Strip(s) == RStrip(LStrip(s))

MinTitleLen == 5

\* the title methods with the document title tried first
title_methods_title_first(soup) ==
  << [raises |-> FALSE, element |-> soup.title],
     [raises |-> FALSE, element |-> soup.og_title],
     [raises |-> TRUE,  element |-> soup.twitter_title],
     [raises |-> FALSE, element |-> soup.h1],
     [raises |-> FALSE, element |-> soup.h2],
     [raises |-> FALSE, element |-> soup.title_class] >>

\* title_methods, in list order.  The second entry calls
\* soup.find('meta', name='twitter:title'): `name` is find's first positional
\* parameter, the call raises TypeError and the bare except skips the entry.
title_methods(soup) ==
  << [raises |-> FALSE, element |-> soup.og_title],
     [raises |-> TRUE,  element |-> soup.twitter_title],
     [raises |-> FALSE, element |-> soup.h1],
     [raises |-> FALSE, element |-> soup.h2],
     [raises |-> FALSE, element |-> soup.title_class],
     [raises |-> FALSE, element |-> soup.title] >>

\* element.get('content', '') or element.get_text(strip=True)
TitleText(element) ==
  IF element.content # "" THEN element.content ELSE Strip(element.text)

RECURSIVE TitleFrom(_, _)
TitleFrom(methods, k) ==
  IF k > Len(methods) THEN "No title found"
  ELSE LET m == methods[k]
       IN  IF m.raises \/ ~m.element.found THEN TitleFrom(methods, k + 1)
           ELSE LET title == TitleText(m.element)
                IN  IF title # "" /\ Len(Strip(title)) > MinTitleLen
                      THEN Strip(title)
                      ELSE TitleFrom(methods, k + 1)

_extract_title_generic(soup) == TitleFrom(title_methods(soup), 1)

(***************************************************************************)
(* The window test, GenericWebScraper._is_within_week_window               *)
(*                                                                         *)
(* Time is counted in whole hours.  A date string is empty, or text the    *)
(* parser rejects, or the text of an instant: wall-clock time written      *)
(* either without an offset or with the offset of `offset` hours.          *)
(***************************************************************************)
EmptyDate == [kind |-> "empty", instant |-> 0, aware |-> FALSE, offset |-> 0]
JunkDate  == [kind |-> "junk", instant |-> 0, aware |-> FALSE, offset |-> 0]
NaiveDate(t)    == [kind |-> "date", instant |-> t, aware |-> FALSE, offset |-> 0]
AwareDate(t, o) == [kind |-> "date", instant |-> t, aware |-> TRUE, offset |-> o]

\* dateutil.parser.parse: raises on text it cannot read, otherwise the
\* wall-clock time as written and the offset written, if any
dateparser_parse(date_str) ==
  IF date_str.kind # "date"
    THEN [raises |-> TRUE, wall |-> 0, tzinfo |-> FALSE, utcoffset |-> 0]
    ELSE [raises |-> FALSE,
          wall |-> date_str.instant + date_str.offset,
          tzinfo |-> date_str.aware,
          utcoffset |-> date_str.offset]

\* the window test with the end of the window included
_is_within_closed_window(date_str, week_start, week_end) ==
  IF date_str.kind = "empty" THEN TRUE
  ELSE LET parsed == dateparser_parse(date_str)
       IN  IF parsed.raises THEN TRUE
           ELSE LET pub_dt == IF ~parsed.tzinfo
                                THEN parsed.wall
                                ELSE parsed.wall - parsed.utcoffset
                IN  week_start <= pub_dt /\ pub_dt <= week_end

_is_within_week_window(date_str, week_start, week_end) ==
  IF date_str.kind = "empty" THEN TRUE
  ELSE LET parsed == dateparser_parse(date_str)
       IN  IF parsed.raises THEN TRUE
           ELSE LET pub_dt == IF ~parsed.tzinfo
                                THEN parsed.wall
                                ELSE parsed.wall - parsed.utcoffset
                IN  week_start <= pub_dt /\ pub_dt < week_end

(***************************************************************************)
(* The web the job runs against                                            *)
(***************************************************************************)
SeedNews == "https://example.com/news"
SeedBlog == "https://example.com/blog"

SeedUrls == {SeedNews, SeedBlog}

\* the href attributes of the anchors of each rendered seed page, in
\* document order
Anchors(seed) ==
  IF seed = SeedNews
    THEN <<"/news/report-2024-05-01", "/about", "/news/analysis/",
           "/interview", "https://other.org/news/story-2024">>
    ELSE <<"/login", "/blog/launch-2024", "/news/report-2024-05-01", "/">>

Hrefs(seed) == {Anchors(seed)[n] : n \in 1..Len(Anchors(seed))}

\* an article page is in the window, or dated outside it, or its navigation
\* times out
PageKinds == {"fresh", "old", "timeout"}

\* the window of the job, in hours: [Monday 00:00, next Monday 00:00)
WeekStart == 0
WeekLength == 7 * 24
WeekEnd == WeekStart + WeekLength

\* the parsed page of an article that loads
ArticleSoup(kind) ==
  [og_title |-> IF kind = "fresh" THEN Meta("Quarterly report") ELSE NoElement,
   twitter_title |-> NoElement,
   h1 |-> Element(" Older interview "),
   h2 |-> NoElement,
   title_class |-> NoElement,
   title |-> Element("Site name - page")]

\* the date the date strategy finds on it
ArticleDate(kind) ==
  IF kind = "fresh" THEN NaiveDate(WeekStart) ELSE AwareDate(WeekEnd, 1)

UrlReport    == "https://example.com/news/report-2024-05-01"
UrlInterview == "https://example.com/interview"
UrlLaunch    == "https://example.com/blog/launch-2024"

\* the webs a job may meet: every article URL is of every kind in one of them
Webs ==
  { (UrlReport :> "fresh") @@ (UrlInterview :> "old") @@ (UrlLaunch :> "timeout"),
    (UrlReport :> "old") @@ (UrlInterview :> "timeout") @@ (UrlLaunch :> "fresh"),
    (UrlReport :> "timeout") @@ (UrlInterview :> "fresh") @@ (UrlLaunch :> "old") }

(***************************************************************************)
(* GenericWebScraper.extract_article_links: the classifier-accepted links  *)
(* of a seed page, as a set; list(set) then yields them in an order that   *)
(* depends on the string hashes of the process: any order, but the same    *)
(* one whenever the same page is read again within the job                 *)
(***************************************************************************)
CandidateSet ==
  [seed \in SeedUrls |->
     {urljoin(seed, h) : h \in {x \in Hrefs(seed) :
                                  _is_likely_article_url(urljoin(seed, x), seed)}}]

ArticleUrls == UNION {CandidateSet[seed] : seed \in SeedUrls}

\* the orders list(article_links) can yield
Orderings(S) ==
  {q \in [1..Cardinality(S) -> S] : \A a, b \in DOMAIN q : q[a] = q[b] => a = b}

\* the candidate lists of the seed pages in one process
ListOrders ==
  {f \in [SeedUrls -> UNION {Orderings(CandidateSet[seed]) : seed \in SeedUrls}] :
     \A seed \in SeedUrls : f[seed] \in Orderings(CandidateSet[seed])}

\* article_links[:max_articles] when max_articles is set and exceeded
Truncate(links, max_articles) ==
  IF max_articles # 0 /\ Len(links) > max_articles
    THEN SubSeq(links, 1, max_articles)
    ELSE links

(***************************************************************************)
(* GenericWebScraper.extract_article_content                               *)
(***************************************************************************)
\* the statement of the try block that raises, if any: page.goto,
\* page.content, or one of the extraction steps that runs outside a try of
\* its own (the noise removal of _extract_content_generic)
FailurePoints == {"none", "goto", "content", "extract"}

\* str(e) of the exception raised
ErrorMessages == {"Timeout", "Target closed", ""}

\* the try block: the record it returns, or the exception that leaves it
TryExtract(kind, point, message, article_url) ==
  IF kind = "timeout" \/ point # "none"
    THEN [raised |-> TRUE, error |-> message,
          value |-> [title |-> "", date |-> EmptyDate, content |-> "",
                     url |-> ""]]
    ELSE [raised |-> FALSE, error |-> "",
          value |-> [title |-> _extract_title_generic(ArticleSoup(kind)),
                     date |-> ArticleDate(kind),
                     content |-> "body text", url |-> article_url]]

\* the call with an except clause that lets the exception through
ExtractCallPropagates(kind, point, message, article_url) ==
  TryExtract(kind, point, message, article_url)

\* the call: the try block and `except Exception as e`
ExtractCall(kind, point, message, article_url) ==
  LET try == TryExtract(kind, point, message, article_url)
  IN  IF try.raised
        THEN [raised |-> FALSE, error |-> "",
              value |-> [title |-> "Error extracting content",
                         date |-> EmptyDate,
                         content |-> "Error: " \o try.error,
                         url |-> article_url]]
        ELSE try

\* the record of an article page of the web: a page of kind "timeout" raises
\* in page.goto
extract_article_content(kind, article_url) ==
  ExtractCall(kind, "none", "Timeout", article_url).value

\* hashlib.sha256(text).hexdigest(), kept symbolic
Sha256(text) == "sha256(" \o text \o ")"

(***************************************************************************)
(* One pass of the candidate loop of scrape_single_site over article_url.  *)
(* st holds the locals articles and processed_count, the shared seen_urls, *)
(* the log of article pages navigated to and, in `effects`, what the pass   *)
(* did, in the order of the statements.                                    *)
(***************************************************************************)
\* the loop without its seen-set test
InSeenNever(st, article_url) == FALSE

InSeen(st, article_url) == article_url \in st.seen_urls

\* what is behind an article URL: the kind of its page and the record
\* extract_article_content returns for it
Rendered(kind, article_url) ==
  [kind |-> kind, record |-> extract_article_content(kind, article_url)]

\* the webs with the record of every page
RenderedWebs ==
  {[u \in DOMAIN w |-> Rendered(w[u], u)] : w \in Webs}

Extracted(web, article_url) == web[article_url].record

InWindow(web, article_url) ==
  _is_within_week_window(Extracted(web, article_url).date, WeekStart, WeekEnd)

\* the hash taken over the URL alone
WithHashOfUrl(article_content) ==
  [title |-> article_content.title, date |-> article_content.date,
   content |-> article_content.content, url |-> article_content.url,
   raw_hash |-> Sha256(article_content.url)]

\* article_content["raw_hash"] = sha256((title + article_url).encode()).hexdigest()
WithHash(article_content) ==
  [title |-> article_content.title, date |-> article_content.date,
   content |-> article_content.content, url |-> article_content.url,
   raw_hash |-> Sha256(article_content.title \o article_content.url)]

\* extract_article_content as the loop sees it: the navigation, and the
\* asyncio.sleep(2) that follows when it succeeds
ExtractEffects(web, article_url) ==
  IF web[article_url].kind = "timeout" THEN <<"goto">> ELSE <<"goto", "sleep">>

\* the pass with the navigation ahead of the seen-set test
ProcessCandidateFetchFirst(st, web, article_url) ==
  LET fetched ==
        [st EXCEPT
           !.fetched = Append(@, article_url),
           !.effects = ExtractEffects(web, article_url) \o <<"in_seen">>]
  IN  IF InSeen(st, article_url) THEN fetched
      ELSE IF ~InWindow(web, article_url)
        THEN [fetched EXCEPT !.effects = @ \o <<"window">>]
        ELSE [fetched EXCEPT
                !.articles = Append(@, WithHash(Extracted(web, article_url))),
                !.processed_count = @ + 1,
                !.seen_urls = @ \cup {article_url},
                !.effects = @ \o <<"window", "append", "count", "add_seen",
                                   "random_delay">>]

\* the pass with the inter-article delay ahead of the window test
ProcessCandidateDelayFirst(st, web, article_url) ==
  LET checked == [st EXCEPT !.effects = <<"in_seen">>]
  IN  IF InSeen(st, article_url) THEN checked
      ELSE LET fetched ==
                 [checked EXCEPT
                    !.fetched = Append(@, article_url),
                    !.effects = @ \o ExtractEffects(web, article_url)
                                  \o <<"random_delay", "window">>]
           IN  IF ~InWindow(web, article_url) THEN fetched
               ELSE [fetched EXCEPT
                       !.articles = Append(@, WithHash(Extracted(web, article_url))),
                       !.processed_count = @ + 1,
                       !.seen_urls = @ \cup {article_url},
                       !.effects = @ \o <<"append", "count", "add_seen">>]

ProcessCandidate(st, web, article_url) ==
  LET checked == [st EXCEPT !.effects = <<"in_seen">>]
  IN  IF InSeen(st, article_url) THEN checked
      ELSE LET fetched ==
                 [checked EXCEPT
                    !.fetched = Append(@, article_url),
                    !.effects = @ \o ExtractEffects(web, article_url)
                                  \o <<"window">>]
           IN  IF ~InWindow(web, article_url) THEN fetched
               ELSE [fetched EXCEPT
                       !.articles = Append(@, WithHash(Extracted(web, article_url))),
                       !.processed_count = @ + 1,
                       !.seen_urls = @ \cup {article_url},
                       !.effects = @ \o <<"append", "count", "add_seen",
                                          "random_delay">>]

\* the waits: each with the least and the greatest duration it can have, in
\* seconds.  asyncio.sleep(n) lasts n; random_delay(a, b) lasts
\* random.uniform(a, b)
Sleep(kind, seconds) == [kind |-> kind, min |-> seconds, max |-> seconds]

RandomDelay(kind, min_delay, max_delay) ==
  [kind |-> kind, min |-> min_delay, max |-> max_delay]

\* page.goto(url) succeeded: asyncio.sleep(3), then the first round of
\* scroll_and_load_content with its asyncio.sleep(2)
SeedWaits == {Sleep("after_seed_goto", 3), Sleep("scroll", 2)}

\* the waits of one pass of the candidate loop
PassWaits(effects) ==
  {Sleep("after_article_goto", 2) :
     n \in {m \in 1..Len(effects) : effects[m] = "sleep"}}
    \cup {RandomDelay("inter_article", 1, 3) :
             n \in {m \in 1..Len(effects) : effects[m] = "random_delay"}}

\* the number of inter-article delays of one pass
PassDelays(effects) ==
  Cardinality({m \in 1..Len(effects) : effects[m] = "random_delay"})

\* wait_exponential(multiplier=1, min=4, max=10) before another attempt
RetryWait == RandomDelay("retry", 4, 10)

(***************************************************************************)
(* The field strategies on a parsed document.  A document is the sequence  *)
(* of its elements in document order; an element has a tag, the innermost  *)
(* container it lies in (`inside`, written as the selector that matches    *)
(* the container) and a value: the text of a heading or paragraph, the     *)
(* content of a meta tag, the src of an image, the datetime of a time tag. *)
(***************************************************************************)
Node(tag, inside, value) == [tag |-> tag, inside |-> inside, value |-> value]

NoNode == Node("", "", "")

\* soup.find / soup.select_one: the first element of the document with one
\* of the tags, inside one of the containers
RECURSIVE FindNode(_, _, _, _)
FindNode(soup, tags, containers, n) ==
  IF n > Len(soup) THEN NoNode
  ELSE IF soup[n].tag \in tags /\ soup[n].inside \in containers THEN soup[n]
  ELSE FindNode(soup, tags, containers, n + 1)

\* the containers of the documents
Containers ==
  {"head", "body", "header", "nav", "footer", "aside", "article", "main",
   ".content", ".sidebar"}

\* the selector of the noise removal
noise_selectors ==
  {"script", "style", "nav", "header", "footer", "aside", ".sidebar", ".menu",
   ".navigation", ".comments", ".advertisement", ".ads"}

IsNoise(node) == node.tag \in noise_selectors \/ node.inside \in noise_selectors

NotNoise(node) == ~IsNoise(node)

\* for unwanted in soup.select(...): unwanted.decompose(): the document
\* after the call, which works on the document it is given
Decompose(soup) == SelectSeq(soup, NotNoise)

\* the lookups of _extract_title_generic on a document
TitleSoup(soup) ==
  LET og == FindNode(soup, {"og_title"}, Containers, 1)
      h1 == FindNode(soup, {"h1"}, Containers, 1)
      h2 == FindNode(soup, {"h2"}, Containers, 1)
      dt == FindNode(soup, {"title"}, Containers, 1)
  IN  [og_title |-> IF og = NoNode THEN NoElement ELSE Meta(og.value),
       twitter_title |-> NoElement,
       h1 |-> IF h1 = NoNode THEN NoElement ELSE Element(h1.value),
       h2 |-> IF h2 = NoNode THEN NoElement ELSE Element(h2.value),
       title_class |-> NoElement,
       title |-> IF dt = NoNode THEN NoElement ELSE Element(dt.value)]

\* the character at position i, "" past the end
CharAt(s, i) == IF i <= Len(s) THEN Char(s, i) ELSE ""

DigitsAt(s, i, n) ==
  /\ i + n - 1 <= Len(s)
  /\ \A j \in 0..(n - 1) : Char(s, i + j) \in Digits

\* date_patterns: a slash, four digits, the separator, two digits and, with
\* three groups, the separator and two more digits; the patterns with
\* slashes end in a slash
date_patterns ==
  << [sep |-> "/", groups |-> 3, slash |-> TRUE],
     [sep |-> "-", groups |-> 3, slash |-> FALSE],
     [sep |-> "/", groups |-> 2, slash |-> TRUE],
     [sep |-> "-", groups |-> 2, slash |-> FALSE] >>

DateMatchAt(p, s, i) ==
  LET end == IF p.groups = 3 THEN i + 10 ELSE i + 7
  IN  /\ CharAt(s, i) = "/"
      /\ DigitsAt(s, i + 1, 4)
      /\ CharAt(s, i + 5) = p.sep
      /\ DigitsAt(s, i + 6, 2)
      /\ p.groups = 3 => CharAt(s, i + 8) = p.sep /\ DigitsAt(s, i + 9, 2)
      /\ p.slash => CharAt(s, end + 1) = "/"

\* '-'.join(match.groups()) of the leftmost match
DateGroups(p, s) ==
  LET at == {i \in 1..Len(s) : DateMatchAt(p, s, i)}
      i  == CHOOSE a \in at : \A b \in at : a <= b
  IN  SubSeq(s, i + 1, i + 4) \o "-" \o SubSeq(s, i + 6, i + 7)
        \o (IF p.groups = 3 THEN "-" \o SubSeq(s, i + 9, i + 10) ELSE "")

RECURSIVE UrlDate(_, _)
UrlDate(url, k) ==
  IF k > Len(date_patterns) THEN ""
  ELSE IF \E i \in 1..Len(url) : DateMatchAt(date_patterns[k], url, i)
    THEN DateGroups(date_patterns[k], url)
  ELSE UrlDate(url, k + 1)

\* date_methods, in list order: time[datetime], the published_time meta
\* tag, soup.find('meta', name='pubdate') (raises TypeError, skipped) and
\* the date classes; then the date patterns on the URL
_extract_date_generic(soup, url) ==
  LET time == FindNode(soup, {"time"}, Containers, 1)
      meta == FindNode(soup, {"published_time"}, Containers, 1)
      cls_date == FindNode(soup, {".date"}, Containers, 1)
  IN  IF time # NoNode /\ time.value # "" THEN Strip(time.value)
      ELSE IF meta # NoNode /\ meta.value # "" THEN Strip(meta.value)
      ELSE IF cls_date # NoNode /\ cls_date.value # "" THEN Strip(cls_date.value)
      ELSE UrlDate(url, 1)

\* the tags whose text is body text
TextTags == {"p", "h1", "h2", "h3", "h4", "h5", "h6", "li"}

RECURSIVE JoinText(_, _, _, _)
JoinText(soup, tags, containers, n) ==
  IF n > Len(soup) THEN ""
  ELSE LET rest == JoinText(soup, tags, containers, n + 1)
       IN  IF /\ soup[n].tag \in tags
              /\ soup[n].inside \in containers
              /\ Strip(soup[n].value) # ""
             THEN Strip(soup[n].value)
                    \o (IF rest = "" THEN "" ELSE "\n" \o rest)
             ELSE rest

\* the containers of content_methods, in list order
content_methods == <<".content", "article", "main">>

MinContentLen == 100

RECURSIVE ContentFrom(_, _)
ContentFrom(soup, k) ==
  IF k > Len(content_methods)
    THEN LET content == JoinText(soup, {"p"}, Containers, 1)
         IN  IF Len(content) > MinContentLen THEN content
             ELSE "No content found"
  ELSE LET content == JoinText(soup, TextTags, {content_methods[k]}, 1)
       IN  IF Len(content) > MinContentLen THEN content
           ELSE ContentFrom(soup, k + 1)

\* _extract_content_generic: the text it returns and the document it
\* leaves behind
_extract_content_generic(soup) ==
  LET cleaned == Decompose(soup)
  IN  [soup |-> cleaned, value |-> ContentFrom(cleaned, 1)]

\* image_methods, in list order: the og:image meta tag,
\* soup.find('meta', name='twitter:image') (raises TypeError, skipped), the
\* first image of an article or content container, the first image of the
\* document; an element without a source leads to the next method
_extract_image_generic(soup, base_url) ==
  LET og    == FindNode(soup, {"og_image"}, Containers, 1)
      inner == FindNode(soup, {"img"}, {"article", ".content"}, 1)
      first == FindNode(soup, {"img"}, Containers, 1)
  IN  IF og # NoNode /\ og.value # "" THEN urljoin(base_url, og.value)
      ELSE IF inner # NoNode /\ inner.value # ""
        THEN urljoin(base_url, inner.value)
      ELSE IF first # NoNode /\ first.value # ""
        THEN urljoin(base_url, first.value)
      ELSE ""

\* the try block of extract_article_content once the page is parsed: the
\* four strategies run on the same soup, in this order
ExtractFromSoup(soup, article_url) ==
  LET title == _extract_title_generic(TitleSoup(soup))
      date  == _extract_date_generic(soup, article_url)
      body  == _extract_content_generic(soup)
      image_url == _extract_image_generic(body.soup, article_url)
  IN  [title |-> title, date |-> date, content |-> body.value,
       image |-> image_url, url |-> article_url]

(***************************************************************************)
(* Content expansion, GenericWebScraper.scroll_and_load_content            *)
(***************************************************************************)
load_more_selectors ==
  << "button:contains('Load More')", "button:contains('Show More')",
     "button:contains('Load More Articles')", "a:contains('Load More')",
     "a:contains('Show More')", ".load-more", ".show-more",
     "[data-load-more]", ".pagination .next", ".pagination a[rel='next']",
     "button[aria-label*='load']", "button[aria-label*='more']" >>

\* the default of the max_scrolls parameter
DefaultMaxScrolls == 5

\* what the page does with one selector in one round: query_selector finds
\* nothing, the element is not visible, the click goes through, or one of
\* query_selector, is_visible and click raises
SelectorOutcomes == {"absent", "hidden", "clicked", "error"}

\* the selector loop without its break
RECURSIVE ClickLoadMoreAll(_, _)
ClickLoadMoreAll(outcomes, n) ==
  IF n > Len(load_more_selectors) THEN <<>>
  ELSE IF outcomes[n] = "clicked"
    THEN <<load_more_selectors[n]>> \o ClickLoadMoreAll(outcomes, n + 1)
  ELSE ClickLoadMoreAll(outcomes, n + 1)

\* the selector loop of one round, from selector n on: the selectors
\* clicked.  An absent or hidden element and an exception of query_selector,
\* is_visible or click lead to the next selector; a click that goes
\* through ends the loop.
RECURSIVE ClickLoadMore(_, _)
ClickLoadMore(outcomes, n) ==
  IF n > Len(load_more_selectors) THEN <<>>
  ELSE IF outcomes[n] = "clicked" THEN <<load_more_selectors[n]>>
  ELSE ClickLoadMore(outcomes, n + 1)

\* the page.evaluate calls of a round; they are outside every try block
EvaluateCalls == {"scroll_to", "old_height", "new_height"}

\* one round of the scroll loop on a page that answers the selectors with
\* `outcomes`, reports the heights old_height and new_height and raises in
\* the page.evaluate call `fault` ("none": in none).  `exit` tells how the
\* round leaves the loop: "next" (on to the next round), "break" or "raise".
ScrollRound(outcomes, old_height, new_height, fault) ==
  IF fault = "scroll_to"
    THEN [clicked |-> <<>>, compared |-> FALSE, exit |-> "raise"]
  ELSE LET clicked == ClickLoadMore(outcomes, 1)
           load_more_clicked == clicked # <<>>
       IN  IF load_more_clicked
             THEN [clicked |-> clicked, compared |-> FALSE, exit |-> "next"]
           ELSE IF fault \in {"old_height", "new_height"}
             THEN [clicked |-> clicked, compared |-> FALSE, exit |-> "raise"]
           ELSE [clicked |-> clicked, compared |-> TRUE,
                 exit |-> IF old_height = new_height THEN "break" ELSE "next"]

\* the two shapes of a SiteResult
DoneResult(url, articles, total, processed) ==
  [base_url |-> url, articles |-> articles, error |-> "none",
   total_articles_found |-> total, successfully_processed |-> processed]

\* a Failed result that drops the error
FailedResultNoError(url, error) ==
  [base_url |-> url, articles |-> <<>>, error |-> "none",
   total_articles_found |-> 0, successfully_processed |-> 0]

FailedResult(url, error) ==
  [base_url |-> url, articles |-> <<>>, error |-> error,
   total_articles_found |-> 0, successfully_processed |-> 0]

\* results[key] = value on a dict that keeps insertion order
SetItem(results, key, value) ==
  IF \E n \in 1..Len(results) : results[n].key = key
    THEN [n \in 1..Len(results) |->
            IF results[n].key = key THEN [key |-> key, value |-> value]
                                    ELSE results[n]]
    ELSE Append(results, [key |-> key, value |-> value])

\* stop_after_attempt(3)
MaxAttempts == 3

(***************************************************************************)
(* State                                                                   *)
(***************************************************************************)
VARIABLES
  cls,    \* one call of _is_likely_article_url: its arguments, the order of
          \* its tables and its verdict
  ttl,    \* one call of _extract_title_generic: the page and the title
  win,    \* one call of _is_within_week_window: its arguments and its result
  ext,    \* one call of extract_article_content: the page, the failure it
          \* meets and its outcome
  scr,    \* one call of scroll_and_load_content: its round counter, what
          \* the page did in the last round and how the call ended
  dom,    \* one call of extract_article_content on a parsed document: the
          \* document and the record
  \* one job, main.scrape_websites:
  urls,                  \* the seed URLs of the request
  max_articles_per_url,  \* its article limit
  web,                   \* the page behind each article URL and its record
  candidates,            \* seed URL -> the list extract_article_links returns
  pc,                    \* where the job stands
  sess,                  \* the driver process and the browser
  job_error,             \* an exception escaped the job
  i,                     \* scrape_multiple_sites: index of the current seed
  seen_set,              \* the job's seen-set (seen_urls of the site call)
  results,               \* the JobResult built so far, in insertion order
  attempt,               \* the retry decorator: attempt number of the site call
  page,                  \* scrape_single_site: the page ("none", "open", "closed")
  article_links,         \* its candidate list
  k,                     \* index of the next candidate
  articles,              \* its article list
  processed_count,       \* its counter
  ret,                   \* the value its return statement holds through finally
  fetched,               \* log: the article URLs navigated to, in order
  nav_error,             \* log: seed index -> navigation failed in the last attempt
  links_of,              \* log: seed index -> candidate list of the last attempt
  faulty,                \* log: create_page or page.close has failed
  close_errors,          \* log: number of page.close failures
  delay_range,           \* the delay range of the request
  effects,               \* what the last pass of the candidate loop did, in order
  waits,                 \* log: the waits executed
  site_delays,           \* log: number of inter-site delays
  article_delays         \* log: number of inter-article delays

harness == <<cls, ttl, win, ext, scr, dom>>

jobvars ==
  <<urls, max_articles_per_url, web, candidates, pc, sess, job_error, i, seen_set, results,
    attempt, page, article_links, k, articles, processed_count, ret, fetched,
    nav_error, links_of, faulty, close_errors, delay_range, effects, waits,
    site_delays, article_delays>>

vars == <<harness, jobvars>>

NoReturn == [kind |-> "none"]

\* the job variables while a single function is exercised
JobIdle ==
  /\ urls = <<>>
  /\ max_articles_per_url = 0
  /\ web = <<>>
  /\ candidates = <<>>
  /\ pc = "off"
  /\ sess = [playwright |-> "absent", browser |-> "absent"]
  /\ job_error = FALSE
  /\ i = 0
  /\ seen_set = {}
  /\ results = <<>>
  /\ attempt = 0
  /\ page = "none"
  /\ article_links = <<>>
  /\ k = 0
  /\ articles = <<>>
  /\ processed_count = 0
  /\ ret = NoReturn
  /\ fetched = <<>>
  /\ nav_error = <<>>
  /\ links_of = <<>>
  /\ faulty = FALSE
  /\ close_errors = 0
  /\ delay_range = <<0, 0>>
  /\ effects = <<>>
  /\ waits = {}
  /\ site_delays = 0
  /\ article_delays = 0

(***************************************************************************)
(* Calls of the classifier                                                 *)
(***************************************************************************)
\* orders of the entries inside the exclude and strong-signal tables
TableOrders == {"source", "reversed", "rotated"}

RotateBy == 7

Permute(table, order) ==
  LET n == Len(table)
  IN  CASE order = "source"   -> table
        [] order = "reversed" -> [j \in 1..n |-> table[n + 1 - j]]
        [] order = "rotated"  -> [j \in 1..n |-> table[((j + RotateBy - 1) % n) + 1]]

\* scheme and authority of the URLs classified
UrlOrigins ==
  {"https://example.com", "https://other.org", "https://Example.com",
   "https://example.com:8080", "https://admin.example.com", ""}

\* what follows the authority
UrlTails ==
  {"/news/report-2024-05-01", "/about", "/news/analysis/", "/About",
   "/news/about", "/news/login-2024", "/2024/05/feed", "/products",
   "/team/members", "/interview", "/x", "/news/story.pdf",
   "/a/b.html?p=1&q=2&r=3&s=4", "/a/b.html?p=1", "#top",
   "javascript:void(0)", "/press/launch#top", "/item/42", "",
   "/catalogue/overview"}

\* the seed URLs the links are classified against
BaseUrls ==
  {"https://example.com/news", "https://admin.example.com/blog",
   "example.com/news"}

ClassifyIdle == [pc |-> "off"]

TitleIdle == [pc |-> "off"]

WindowIdle == [pc |-> "off"]

ExtractIdle == [pc |-> "off"]

ScrollIdle == [pc |-> "off"]

DomIdle == [pc |-> "off"]

ClassifyInit ==
  /\ JobIdle
  /\ ttl = TitleIdle
  /\ win = WindowIdle
  /\ ext = ExtractIdle
  /\ scr = ScrollIdle
  /\ dom = DomIdle
  /\ \E o \in UrlOrigins, t \in UrlTails, b \in BaseUrls, ord \in TableOrders :
       cls = [pc |-> "call", url |-> o \o t, base |-> b, order |-> ord,
              verdict |-> FALSE]

Classify ==
  /\ cls.pc = "call"
  /\ cls' = [cls EXCEPT
       !.pc = "done",
       !.verdict = ClassifyWith(cls.url, cls.base,
                                Permute(definite_excludes, cls.order),
                                Permute(strong_signals, cls.order))]
  /\ UNCHANGED <<ttl, win, ext, scr, dom, jobvars>>

ClassifyNext == Classify

SpecClassify == ClassifyInit /\ [][ClassifyNext]_vars

(***************************************************************************)
(* Calls of the title strategy                                             *)
(***************************************************************************)
OgTitles ==
  {NoElement, Meta("X"), Meta("Quarterly report"), Meta("  Padded headline "),
   Meta("      "), Meta("")}

TwitterTitles == {NoElement, Meta("Twitter headline")}

Headings == {NoElement, Element("Top"), Element(" First heading ")}

SubHeadings == {NoElement, Element("Second heading")}

ClassTitles == {NoElement, Element("Entry title")}

DocTitles == {NoElement, Element("Y"), Element("Site name - page"), Element("")}

TitleInit ==
  /\ JobIdle
  /\ cls = ClassifyIdle
  /\ win = WindowIdle
  /\ ext = ExtractIdle
  /\ scr = ScrollIdle
  /\ dom = DomIdle
  /\ \E og \in OgTitles, tw \in TwitterTitles, h1 \in Headings,
        h2 \in SubHeadings, tc \in ClassTitles, dt \in DocTitles :
       ttl = [pc |-> "call",
              soup |-> [og_title |-> og, twitter_title |-> tw, h1 |-> h1,
                        h2 |-> h2, title_class |-> tc, title |-> dt],
              title |-> ""]

ExtractTitle ==
  /\ ttl.pc = "call"
  /\ ttl' = [ttl EXCEPT !.pc = "done",
                        !.title = _extract_title_generic(ttl.soup)]
  /\ UNCHANGED <<cls, win, ext, scr, dom, jobvars>>

TitleNext == ExtractTitle

SpecTitle == TitleInit /\ [][TitleNext]_vars

(***************************************************************************)
(* Calls of the window test                                                *)
(***************************************************************************)
MaxClock == 5

Clock == 0..MaxClock

\* the offsets written in the date strings, in hours
Offsets == {-2, 1}

DateStrings ==
  {EmptyDate, JunkDate}
    \cup {NaiveDate(t) : t \in Clock}
    \cup {AwareDate(t, o) : t \in Clock, o \in Offsets}

WindowInit ==
  /\ JobIdle
  /\ cls = ClassifyIdle
  /\ ttl = TitleIdle
  /\ ext = ExtractIdle
  /\ scr = ScrollIdle
  /\ dom = DomIdle
  /\ \E d \in DateStrings, ws \in Clock, we \in Clock :
       win = [pc |-> "call", date_str |-> d, week_start |-> ws,
              week_end |-> we, result |-> FALSE]

CheckWindow ==
  /\ win.pc = "call"
  /\ win' = [win EXCEPT
       !.pc = "done",
       !.result = _is_within_week_window(win.date_str, win.week_start,
                                         win.week_end)]
  /\ UNCHANGED <<cls, ttl, ext, scr, dom, jobvars>>

WindowNext == CheckWindow

SpecWindow == WindowInit /\ [][WindowNext]_vars

(***************************************************************************)
(* Calls of the extractor                                                  *)
(***************************************************************************)
ExtractInit ==
  /\ JobIdle
  /\ cls = ClassifyIdle
  /\ ttl = TitleIdle
  /\ win = WindowIdle
  /\ scr = ScrollIdle
  /\ dom = DomIdle
  /\ \E kind \in PageKinds, point \in FailurePoints, message \in ErrorMessages,
        article_url \in {UrlReport, UrlInterview, UrlLaunch} :
       ext = [pc |-> "call", kind |-> kind, point |-> point,
              message |-> message, url |-> article_url,
              outcome |-> [raised |-> FALSE, error |-> "",
                           value |-> [title |-> "", date |-> EmptyDate,
                                      content |-> "", url |-> ""]]]

Extract ==
  /\ ext.pc = "call"
  /\ ext' = [ext EXCEPT
       !.pc = "done",
       !.outcome = ExtractCall(ext.kind, ext.point, ext.message, ext.url)]
  /\ UNCHANGED <<cls, ttl, win, scr, dom, jobvars>>

ExtractNext == Extract

SpecExtract == ExtractInit /\ [][ExtractNext]_vars

(***************************************************************************)
(* Calls of the content expansion.  The page is free to answer each round  *)
(* differently.                                                            *)
(***************************************************************************)
ScrollLimits == {0, 1, 2, DefaultMaxScrolls}

Heights == {1000, 2000}

\* the answers of a page to the selectors in one round: the first and the
\* last selector of the list can have an element
PageAnswers ==
  {[n \in 1..Len(load_more_selectors) |->
      IF n = 1 THEN x
      ELSE IF n = Len(load_more_selectors) THEN y
      ELSE "absent"] :
     x \in SelectorOutcomes, y \in SelectorOutcomes}

NoRound ==
  [outcomes |-> [n \in 1..Len(load_more_selectors) |-> "absent"],
   old_height |-> 0, new_height |-> 0, fault |-> "none",
   clicked |-> <<>>, compared |-> FALSE, exit |-> "next"]

ScrollInit ==
  /\ JobIdle
  /\ cls = ClassifyIdle
  /\ ttl = TitleIdle
  /\ win = WindowIdle
  /\ ext = ExtractIdle
  /\ dom = DomIdle
  /\ \E max_scrolls \in ScrollLimits :
       scr = [pc |-> "loop", max_scrolls |-> max_scrolls, scroll_attempt |-> 0,
              last |-> NoRound]

\* one pass of `for scroll_attempt in range(max_scrolls)`
ScrollStep ==
  /\ scr.pc = "loop"
  /\ scr.scroll_attempt < scr.max_scrolls
  /\ \E outcomes \in PageAnswers, old_height \in Heights,
        new_height \in Heights, fault \in EvaluateCalls \cup {"none"} :
       LET round == ScrollRound(outcomes, old_height, new_height, fault)
       IN  scr' = [scr EXCEPT
             !.pc = CASE round.exit = "next"  -> "loop"
                      [] round.exit = "break" -> "returned"
                      [] round.exit = "raise" -> "raised",
             !.scroll_attempt = @ + 1,
             !.last = [outcomes |-> outcomes, old_height |-> old_height,
                       new_height |-> new_height, fault |-> fault,
                       clicked |-> round.clicked,
                       compared |-> round.compared, exit |-> round.exit]]
  /\ UNCHANGED <<cls, ttl, win, ext, dom, jobvars>>

\* range(max_scrolls) is exhausted
ScrollExhausted ==
  /\ scr.pc = "loop"
  /\ scr.scroll_attempt = scr.max_scrolls
  /\ scr' = [scr EXCEPT !.pc = "returned"]
  /\ UNCHANGED <<cls, ttl, win, ext, dom, jobvars>>

ScrollNext == ScrollStep \/ ScrollExhausted

SpecScroll == ScrollInit /\ [][ScrollNext]_vars

(***************************************************************************)
(* Calls of the extractor on parsed documents                              *)
(***************************************************************************)
LongText ==
  "The council approved the new budget on Tuesday after a long debate about road repairs and school funding."

PageNodes ==
  {Node("img", "header", "/logo.png"),
   Node("img", "article", "/photo.jpg"),
   Node("og_image", "head", "https://cdn.example.com/og.png"),
   Node("h1", "header", "Council approves budget"),
   Node("time", "footer", "2024-05-01"),
   Node("p", "article", LongText),
   Node("p", "aside", "Related stories")}

MaxNodes == 3

RECURSIVE Documents(_)
Documents(n) ==
  IF n = 0 THEN {<<>>}
  ELSE Documents(n - 1)
         \cup {Append(d, node) : d \in Documents(n - 1), node \in PageNodes}

DocumentUrls ==
  {"https://example.com/2024/05/budget", "https://example.com/news/budget"}

DomInit ==
  /\ JobIdle
  /\ cls = ClassifyIdle
  /\ ttl = TitleIdle
  /\ win = WindowIdle
  /\ ext = ExtractIdle
  /\ scr = ScrollIdle
  /\ \E soup \in Documents(MaxNodes), article_url \in DocumentUrls :
       dom = [pc |-> "call", soup |-> soup, url |-> article_url,
              record |-> [title |-> "", date |-> "", content |-> "",
                          image |-> "", url |-> ""]]

ExtractDocument ==
  /\ dom.pc = "call"
  /\ dom' = [dom EXCEPT !.pc = "done",
                        !.record = ExtractFromSoup(dom.soup, dom.url)]
  /\ UNCHANGED <<cls, ttl, win, ext, scr, jobvars>>

DomNext == ExtractDocument

SpecDom == DomInit /\ [][DomNext]_vars

(***************************************************************************)
(* The job: main.scrape_websites opens the session, runs                   *)
(* scrape_multiple_sites over the seed URLs and leaves the session.        *)
(***************************************************************************)
MaxSites == 2

MaxArticles == 2

\* the number of page.close() failures a job meets
MaxCloseErrors == 3

\* delay_range of ScrapeRequest when the request names none
DefaultDelayRange == <<2, 5>>

\* the delay ranges a request can carry: no delay, or the default
DelayRanges == {<<0, 0>>, DefaultDelayRange}

RECURSIVE SeqsUpTo(_, _)
SeqsUpTo(S, n) ==
  IF n = 0 THEN {<<>>}
  ELSE LET shorter == SeqsUpTo(S, n - 1)
       IN  shorter \cup {Append(q, x) : q \in shorter, x \in S}

\* the start of a job whose request carries one of the given delay ranges
JobInitWith(ranges) ==
  /\ cls = ClassifyIdle
  /\ ttl = TitleIdle
  /\ win = WindowIdle
  /\ ext = ExtractIdle
  /\ scr = ScrollIdle
  /\ dom = DomIdle
  /\ candidates \in ListOrders
  /\ urls \in SeqsUpTo(SeedUrls, MaxSites)
  /\ max_articles_per_url \in {1, MaxArticles}
  /\ web \in RenderedWebs
  /\ pc = "aenter"
  /\ sess = [playwright |-> "absent", browser |-> "absent"]
  /\ job_error = FALSE
  /\ i = 0
  /\ seen_set = {}
  /\ results = <<>>
  /\ attempt = 0
  /\ page = "none"
  /\ article_links = <<>>
  /\ k = 0
  /\ articles = <<>>
  /\ processed_count = 0
  /\ ret = NoReturn
  /\ fetched = <<>>
  /\ nav_error = <<>>
  /\ links_of = <<>>
  /\ faulty = FALSE
  /\ close_errors = 0
  /\ delay_range \in ranges
  /\ effects = <<>>
  /\ waits = {}
  /\ site_delays = 0
  /\ article_delays = 0

\* a job with the default delay range
JobInit == JobInitWith({DefaultDelayRange})

\* a job with any of the delay ranges
DelaysInit == JobInitWith(DelayRanges)

inputs == <<urls, max_articles_per_url, web, candidates, delay_range>>
locals == <<article_links, k, articles, processed_count, effects>>
delays == <<waits, site_delays, article_delays>>
logs   == <<fetched, nav_error, links_of, faulty, close_errors, delays>>

\* __aenter__: async_playwright().start()
StartDriver ==
  /\ pc = "aenter"
  /\ sess' = [sess EXCEPT !.playwright = "running"]
  /\ pc' = "launch"
  /\ UNCHANGED <<harness, inputs, job_error, i, seen_set, results, attempt,
                 page, locals, ret, logs>>

StartDriverFails ==
  /\ pc = "aenter"
  /\ pc' = "ended"
  /\ job_error' = TRUE
  /\ UNCHANGED <<harness, inputs, sess, i, seen_set, results, attempt, page,
                 locals, ret, logs>>

\* __aenter__: chromium.launch(); then scrape_multiple_sites starts with
\* seen_set = set(seen_urls or []) and results = {}
LaunchBrowser ==
  /\ pc = "launch"
  /\ sess' = [sess EXCEPT !.browser = "open"]
  /\ i' = 1
  /\ seen_set' = {}
  /\ results' = <<>>
  /\ pc' = "batch"
  /\ UNCHANGED <<harness, inputs, job_error, attempt, page, locals, ret, logs>>

\* launch raises inside __aenter__: the with statement never runs __aexit__
LaunchBrowserFails ==
  /\ pc = "launch"
  /\ pc' = "ended"
  /\ job_error' = TRUE
  /\ UNCHANGED <<harness, inputs, sess, i, seen_set, results, attempt, page,
                 locals, ret, logs>>

\* for i, url in enumerate(urls): call scrape_single_site
NextSite ==
  /\ pc = "batch"
  /\ i <= Len(urls)
  /\ attempt' = 1
  /\ pc' = "create_page"
  /\ UNCHANGED <<harness, inputs, sess, job_error, i, seen_set, results, page,
                 locals, ret, logs>>

\* the loop is over: return results, leave the with block
BatchDone ==
  /\ pc = "batch"
  /\ i > Len(urls)
  /\ pc' = "aexit"
  /\ UNCHANGED <<harness, inputs, sess, job_error, i, seen_set, results,
                 attempt, page, locals, ret, logs>>

\* scrape_single_site: page = await self.create_page()
CreatePage ==
  /\ pc = "create_page"
  /\ page' = "open"
  /\ ret' = NoReturn
  /\ pc' = "goto"
  /\ UNCHANGED <<harness, inputs, sess, job_error, i, seen_set, results,
                 attempt, locals, logs>>

\* create_page raises after its own retries: the except clause of
\* scrape_single_site returns the Failed result, page is still None
CreatePageFails ==
  /\ pc = "create_page"
  /\ page' = "none"
  /\ ret' = FailedResult(urls[i], "RetryError[create_page]")
  /\ nav_error' = (i :> FALSE) @@ nav_error
  /\ faulty' = TRUE
  /\ waits' = waits \cup {RetryWait}
  /\ pc' = "finally"
  /\ UNCHANGED <<harness, inputs, sess, job_error, i, seen_set, results,
                 attempt, locals, fetched, links_of, close_errors,
                 site_delays, article_delays>>

\* page.goto(url), the wait and scroll_and_load_content
GotoSeed ==
  /\ pc = "goto"
  /\ nav_error' = (i :> FALSE) @@ nav_error
  /\ waits' = waits \cup SeedWaits
  /\ pc' = "links"
  /\ UNCHANGED <<harness, inputs, sess, job_error, i, seen_set, results,
                 attempt, page, locals, ret, fetched, links_of, faulty,
                 close_errors, site_delays, article_delays>>

GotoSeedFails ==
  /\ pc = "goto"
  /\ ret' = FailedResult(urls[i], "TimeoutError")
  /\ nav_error' = (i :> TRUE) @@ nav_error
  /\ pc' = "finally"
  /\ UNCHANGED <<harness, inputs, sess, job_error, i, seen_set, results,
                 attempt, page, locals, fetched, links_of, faulty, close_errors,
                 delays>>

\* extract_article_links, the truncation and the start of the loop
ExtractLinks ==
  /\ pc = "links"
  /\ article_links' = Truncate(candidates[urls[i]], max_articles_per_url)
  /\ links_of' = (i :> article_links') @@ links_of
  /\ articles' = <<>>
  /\ processed_count' = 0
  /\ k' = 1
  /\ pc' = "loop"
  /\ UNCHANGED <<harness, inputs, sess, job_error, i, seen_set, results,
                 attempt, page, ret, fetched, nav_error, faulty, close_errors,
                 effects, delays>>

\* the state the candidate loop works on
LoopState ==
  [articles |-> articles, processed_count |-> processed_count,
   seen_urls |-> seen_set, fetched |-> fetched, effects |-> effects]

AtCandidate == pc = "loop" /\ k <= Len(article_links)

\* one pass of the loop body
LoopPass ==
  /\ AtCandidate
  /\ LET st == ProcessCandidate(LoopState, web, article_links[k])
     IN  /\ articles' = st.articles
         /\ processed_count' = st.processed_count
         /\ seen_set' = st.seen_urls
         /\ fetched' = st.fetched
         /\ effects' = st.effects
         /\ waits' = waits \cup PassWaits(st.effects)
         /\ article_delays' = article_delays + PassDelays(st.effects)
  /\ k' = k + 1
  /\ UNCHANGED <<harness, inputs, pc, sess, job_error, i, results, attempt,
                 page, article_links, ret, nav_error, links_of, faulty,
                 close_errors, site_delays>>

\* `if article_url in seen_urls: continue`
SkipSeen ==
  /\ AtCandidate
  /\ article_links[k] \in seen_set
  /\ LoopPass

\* the article is outside the window
RejectArticle ==
  /\ AtCandidate
  /\ article_links[k] \notin seen_set
  /\ ~InWindow(web, article_links[k])
  /\ LoopPass

\* the record is appended, counted and its URL added to the seen-set
AcceptArticle ==
  /\ AtCandidate
  /\ article_links[k] \notin seen_set
  /\ InWindow(web, article_links[k])
  /\ LoopPass

\* the loop is over: the return statement of the try block
LoopDone ==
  /\ pc = "loop"
  /\ k > Len(article_links)
  /\ ret' = DoneResult(urls[i], articles, Len(article_links), processed_count)
  /\ pc' = "finally"
  /\ UNCHANGED <<harness, inputs, sess, job_error, i, seen_set, results,
                 attempt, page, locals, logs>>

\* `if i < len(urls) - 1: await self.random_delay(*delay_range)`, i counted
\* from 0 there and from 1 here
InterSiteDelay ==
  IF i < Len(urls)
    THEN /\ waits' = waits \cup {RandomDelay("inter_site", delay_range[1],
                                              delay_range[2])}
         /\ site_delays' = site_delays + 1
    ELSE UNCHANGED <<waits, site_delays>>

\* scrape_multiple_sites receives the result: the URLs of its articles go to
\* the seen-set, the result is stored under its ordinal key, the delay
\* between sites follows
Deliver ==
  /\ seen_set' = seen_set \cup {ret.articles[n].url : n \in 1..Len(ret.articles)}
  /\ results' = SetItem(results, i, ret)
  /\ InterSiteDelay
  /\ i' = i + 1
  /\ pc' = "batch"

\* finally: `if page:` is false
ReturnNoPage ==
  /\ pc = "finally"
  /\ page = "none"
  /\ Deliver
  /\ UNCHANGED <<harness, inputs, sess, job_error, attempt, page, locals, ret,
                 fetched, nav_error, links_of, faulty, close_errors,
                 article_delays>>

\* finally: page.close()
ClosePage ==
  /\ pc = "finally"
  /\ page = "open"
  /\ page' = "closed"
  /\ Deliver
  /\ UNCHANGED <<harness, inputs, sess, job_error, attempt, locals, ret,
                 fetched, nav_error, links_of, faulty, close_errors,
                 article_delays>>

\* page.close() raises: the exception replaces the return value and the
\* retry decorator calls scrape_single_site again
ClosePageFailsRetry ==
  /\ pc = "finally"
  /\ page = "open"
  /\ attempt < MaxAttempts
  /\ close_errors < MaxCloseErrors
  /\ attempt' = attempt + 1
  /\ faulty' = TRUE
  /\ close_errors' = close_errors + 1
  /\ waits' = waits \cup {RetryWait}
  /\ pc' = "create_page"
  /\ UNCHANGED <<harness, inputs, sess, job_error, i, seen_set, results, page,
                 locals, ret, fetched, nav_error, links_of, site_delays,
                 article_delays>>

\* the batch moving on without an entry for the site
ClosePageFailsNoEntry ==
  /\ pc = "finally"
  /\ page = "open"
  /\ attempt = MaxAttempts
  /\ close_errors < MaxCloseErrors
  /\ faulty' = TRUE
  /\ close_errors' = close_errors + 1
  /\ i' = i + 1
  /\ pc' = "batch"
  /\ UNCHANGED <<harness, inputs, sess, job_error, seen_set, results, attempt,
                 page, locals, ret, fetched, nav_error, links_of, delays>>

\* page.close() raises in the last attempt: RetryError reaches the except
\* clause of scrape_multiple_sites
ClosePageFailsGiveUp ==
  /\ pc = "finally"
  /\ page = "open"
  /\ attempt = MaxAttempts
  /\ close_errors < MaxCloseErrors
  /\ results' = SetItem(results, i, FailedResult(urls[i], "RetryError[scrape_single_site]"))
  /\ faulty' = TRUE
  /\ close_errors' = close_errors + 1
  /\ i' = i + 1
  /\ pc' = "batch"
  /\ UNCHANGED <<harness, inputs, sess, job_error, seen_set, attempt, page,
                 locals, ret, fetched, nav_error, links_of, delays>>

\* __aexit__: browser.close(), then playwright.stop()
CloseBrowser ==
  /\ pc = "aexit"
  /\ sess' = [playwright |-> "stopped", browser |-> "closed"]
  /\ pc' = "ended"
  /\ UNCHANGED <<harness, inputs, job_error, i, seen_set, results, attempt,
                 page, locals, ret, logs>>

\* browser.close() raises: __aexit__ ends there, playwright.stop() is not run
CloseBrowserFails ==
  /\ pc = "aexit"
  /\ pc' = "ended"
  /\ job_error' = TRUE
  /\ UNCHANGED <<harness, inputs, sess, i, seen_set, results, attempt, page,
                 locals, ret, logs>>

Next ==
  \/ StartDriver
  \/ StartDriverFails
  \/ LaunchBrowser
  \/ LaunchBrowserFails
  \/ NextSite
  \/ BatchDone
  \/ CreatePage
  \/ CreatePageFails
  \/ GotoSeed
  \/ GotoSeedFails
  \/ ExtractLinks
  \/ SkipSeen
  \/ RejectArticle
  \/ AcceptArticle
  \/ LoopDone
  \/ ReturnNoPage
  \/ ClosePage
  \/ ClosePageFailsRetry
  \/ ClosePageFailsGiveUp
  \/ CloseBrowser
  \/ CloseBrowserFails

Init == JobInit

Spec == Init /\ [][Next]_vars

SpecDelays == DelaysInit /\ [][Next]_vars

(***************************************************************************)
(* What a batch yields when nothing but seed navigation fails: the sites   *)
(* at the positions in `failing` fail to load, every other site runs its   *)
(* candidate loop once over the candidate list lists[n].                   *)
(***************************************************************************)
RECURSIVE LoopFrom(_, _, _)
LoopFrom(st, links, n) ==
  IF n > Len(links) THEN st
  ELSE LoopFrom(ProcessCandidate(st, web, links[n]), links, n + 1)

RECURSIVE BatchFrom(_, _, _, _, _)
BatchFrom(n, seen, failing, lists, acc) ==
  IF n > Len(urls) THEN acc
  ELSE IF n \in failing
    THEN BatchFrom(n + 1, seen, failing, lists,
                   Append(acc, FailedResult(urls[n], "TimeoutError")))
    ELSE LET st == LoopFrom([articles |-> <<>>, processed_count |-> 0,
                             seen_urls |-> seen, fetched |-> <<>>,
                             effects |-> <<>>],
                            lists[n], 1)
         IN  BatchFrom(n + 1, st.seen_urls, failing, lists,
                       Append(acc, DoneResult(urls[n], st.articles,
                                              Len(lists[n]), st.processed_count)))

\* the candidate list a site works on when its seed page loads
CandidateList(seed) == Truncate(candidates[seed], max_articles_per_url)

(***************************************************************************)
(* Properties                                                              *)
(***************************************************************************)
\* scrape_multiple_sites has returned its mapping
Returned == pc = "aexit"

\* the seed positions whose navigation failed in the attempt that returned
NavFailed == {n \in DOMAIN nav_error : nav_error[n]}

\* the article records of the mapping, as (entry, index) pairs
Records ==
  {<<n, m>> \in (1..Len(results)) \X (1..MaxArticles + 1) :
     m <= Len(results[n].value.articles)}

RecordAt(r) == results[r[1]].value.articles[r[2]]

\* C1: the mapping returned by scrape_multiple_sites has exactly len(urls)
\* entries; the n-th entry inserted has the ordinal key n and the n-th input
\* URL as base_url, whatever the outcome of each site.
C1_OneResultPerUrl ==
  Returned =>
    /\ Len(results) = Len(urls)
    /\ \A n \in 1..Len(urls) :
         results[n].key = n /\ results[n].value.base_url = urls[n]

\* a batch of two sites, one ended by the exception escaping
\* scrape_single_site, the other with an article
C1_Witness ==
  /\ Returned
  /\ Len(urls) = 2
  /\ \E n, m \in 1..2 :
       /\ results[n].value.error = "RetryError[scrape_single_site]"
       /\ results[m].value.error = "none"
       /\ Len(results[m].value.articles) > 0

\* C2: no two article records among all SiteResults of the mapping have the
\* same url.
C2_NoDuplicateUrl ==
  \A r1, r2 \in Records : RecordAt(r1).url = RecordAt(r2).url => r1 = r2

\* the second site found, among its candidates, a URL the first site had
\* turned into a record
C2_Witness ==
  /\ Returned
  /\ Len(results) = 2
  /\ 2 \in DOMAIN links_of
  /\ \E m \in 1..Len(results[1].value.articles) :
       \E c \in 1..Len(links_of[2]) :
         links_of[2][c] = results[1].value.articles[m].url

FailedCandidateStep ==
  /\ AtCandidate
  /\ article_links[k] \notin seen_set
  /\ web[article_links[k]].kind = "timeout"
  /\ k' = k + 1

\* C4: a candidate whose navigation or extraction fails is skipped: no
\* record is appended, it is not counted, its URL is not added to the
\* seen-set.
C4_FailedCandidateSkipped ==
  [][FailedCandidateStep =>
       /\ articles' = articles
       /\ processed_count' = processed_count
       /\ seen_set' = seen_set]_vars

\* C5: when the job has ended, on whatever path, the browser is closed and
\* the driver process is stopped.
C5_SessionReleased ==
  pc = "ended" => sess.browser # "open" /\ sess.playwright # "running"

\* the instant a date string denotes, in UTC
Instant(date_str) == date_str.instant

\* C6: the window test returns true for every empty date string and every
\* date string the parser cannot read, and for a date d it returns true
\* exactly when week_start <= d < week_end, d taken in UTC.
C6_HalfOpenWindow ==
  win.pc = "done" =>
    IF win.date_str.kind \in {"empty", "junk"} THEN win.result
    ELSE win.result <=> /\ win.week_start <= Instant(win.date_str)
                        /\ Instant(win.date_str) < win.week_end

\* a date written with an offset, whose instant is the start of a non-empty
\* window, is included
C6_Witness ==
  /\ win.pc = "done"
  /\ win.date_str.kind = "date"
  /\ win.date_str.aware
  /\ win.date_str.offset # 0
  /\ Instant(win.date_str) = win.week_start
  /\ win.week_start < win.week_end
  /\ win.result

\* a URL matches an entry of the definite-exclude table
MatchesExclude(url) ==
  \E n \in 1..Len(definite_excludes) : ReSearch(definite_excludes[n], Lower(url))

MatchesStrong(url) ==
  \E n \in 1..Len(strong_signals) : ReSearch(strong_signals[n], Lower(url))

\* C7: a URL that matches a definite-exclude pattern is rejected, whatever
\* other signal it carries and in whatever order the tables are walked.
C7_ExcludeWins ==
  (cls.pc = "done" /\ MatchesExclude(cls.url)) => ~cls.verdict

\* a same-host URL that matches both an exclude and a strong signal was
\* classified with the tables in another order than the source's
C7_Witness ==
  /\ cls.pc = "done"
  /\ cls.order # "source"
  /\ Netloc(cls.url) = Netloc(cls.base)
  /\ MatchesExclude(cls.url)
  /\ MatchesStrong(cls.url)
  /\ ~cls.verdict

\* C8: against the seed https://example.com/news the classifier accepts
\* /news/report-2024-05-01 and /news/analysis/ and rejects /about, in every
\* order of the tables.
C8_Scenario ==
  (cls.pc = "done" /\ cls.base = SeedNews) =>
    /\ cls.url = urljoin(SeedNews, "/news/report-2024-05-01") => cls.verdict
    /\ cls.url = urljoin(SeedNews, "/about") => ~cls.verdict
    /\ cls.url = urljoin(SeedNews, "/news/analysis/") => cls.verdict

\* C9: a URL whose host differs from the host of the seed is rejected,
\* whatever signal it carries.
C9_CrossDomainRejected ==
  (cls.pc = "done" /\ HostName(cls.url) # HostName(cls.base)) => ~cls.verdict

\* a URL of another host that carries a strong signal and matches no exclude
\* pattern was rejected
C9_Witness ==
  /\ cls.pc = "done"
  /\ HostName(cls.url) # ""
  /\ HostName(cls.base) # ""
  /\ HostName(cls.url) # HostName(cls.base)
  /\ MatchesStrong(cls.url)
  /\ ~MatchesExclude(cls.url)
  /\ ~cls.verdict

\* C10 as stated: a page with an og:title meta tag and a document title
\* yields the content of the og:title tag.
C10_OgTitleWins ==
  (ttl.pc = "done" /\ ttl.soup.og_title.found /\ ttl.soup.title.found) =>
    ttl.title = ttl.soup.og_title.content

\* C10 as amended: a page whose og:title content, stripped of surrounding
\* blanks, is longer than 5 characters yields that stripped content,
\* whatever its headings and its document title.
C10_LongOgTitleWins ==
  (/\ ttl.pc = "done"
   /\ ttl.soup.og_title.found
   /\ Len(Strip(ttl.soup.og_title.content)) > 5) =>
    ttl.title = Strip(ttl.soup.og_title.content)

\* the og:title won over a heading and a document title that both qualify
C10_Witness ==
  /\ ttl.pc = "done"
  /\ ttl.soup.og_title = Meta("Quarterly report")
  /\ ttl.soup.h1 = Element(" First heading ")
  /\ ttl.soup.title = Element("Site name - page")
  /\ ttl.title = "Quarterly report"

\* the call of the extractor met a failure inside its try block
ExtractFailed == ext.kind = "timeout" \/ ext.point # "none"

\* C11 as stated: the extractor never raises, and when navigation or an
\* extraction step fails inside it the record returned has the title
\* "Error extracting content" and an empty content field.
C11_SentinelEmptyBody ==
  ext.pc = "done" =>
    /\ ~ext.outcome.raised
    /\ ExtractFailed =>
         /\ ext.outcome.value.title = "Error extracting content"
         /\ ext.outcome.value.content = ""

\* C11 as amended: the extractor never raises, and when navigation or an
\* extraction step fails inside it the record returned has the title
\* "Error extracting content", an empty date, the URL of the call, and a
\* content field holding "Error: " followed by the text of the error.
C11_SentinelOnFailure ==
  ext.pc = "done" =>
    /\ ~ext.outcome.raised
    /\ ExtractFailed =>
         /\ ext.outcome.value.title = "Error extracting content"
         /\ ext.outcome.value.date = EmptyDate
         /\ ext.outcome.value.url = ext.url
         /\ ext.outcome.value.content = "Error: " \o ext.message

\* an extraction step raised on a page that loaded, and the call returned
\* the sentinel record
C11_Witness ==
  /\ ext.pc = "done"
  /\ ext.kind = "fresh"
  /\ ext.point = "extract"
  /\ ext.message = "Target closed"
  /\ ~ext.outcome.raised
  /\ ext.outcome.value.title = "Error extracting content"

\* C12: in a job whose delay range is (0, 0) every wait executed lasts 0
\* seconds: between sites, between articles, after a navigation and during
\* content expansion.
C12_NoForcedWait ==
  delay_range = <<0, 0>> => \A w \in waits : w.min = 0 /\ w.max = 0

\* the hash recomputed from the fields of a record is the hash it stores
HashReproduced(article) == article.raw_hash = Sha256(article.title \o article.url)

\* C13: every article record, in the article list of the running site, in
\* the value its return statement holds and in every SiteResult of the
\* mapping, stores the hash recomputed from its own title and url.
C13_HashRoundTrip ==
  /\ \A n \in 1..Len(articles) : HashReproduced(articles[n])
  /\ ret # NoReturn => \A n \in 1..Len(ret.articles) : HashReproduced(ret.articles[n])
  /\ \A r \in Records : HashReproduced(RecordAt(r))

\* the mapping returned holds a record with an extracted title and a
\* record with the sentinel title, each with its hash
C13_Witness ==
  /\ Returned
  /\ \E r1, r2 \in Records :
       /\ RecordAt(r1).title = "Quarterly report"
       /\ RecordAt(r1).raw_hash = Sha256("Quarterly report" \o RecordAt(r1).url)
       /\ RecordAt(r2).title = "Error extracting content"

\* the URLs of the article records of the mapping
RecordUrls == {RecordAt(r).url : r \in Records}

\* C14: the seen-set only grows, and when scrape_multiple_sites returns
\* every URL of the seen-set (the caller supplied none) is the url of an
\* article record of some SiteResult of the mapping.
C14_SeenAreRecords ==
  /\ [][seen_set \subseteq seen_set']_vars
  /\ [](Returned => seen_set \subseteq RecordUrls)

\* C15: a site run that went through retries yields what a run without
\* retry yields: when every site of the batch returned from
\* scrape_single_site with its seed loaded or its seed navigation failed,
\* the mapping is the one the batch yields when each site runs its candidate
\* loop once.
C15_RetryRerunsNothing ==
  (/\ Returned
   /\ \A n \in 1..Len(results) :
        results[n].value.error \in {"none", "TimeoutError"}) =>
    LET once == BatchFrom(1, {}, NavFailed, links_of, <<>>)
    IN  \A n \in 1..Len(results) : results[n].value = once[n]

\* C16: when the mapping is returned, every site whose candidate loop
\* completed has a SiteResult without error, in which
\* successfully_processed is the number of its records, the total-links
\* count is the number of candidates of the loop, and the former is at most
\* the latter.
C16_LoopDoneIsDone ==
  Returned =>
    \A n \in DOMAIN links_of :
      LET r == results[n].value
      IN  /\ r.error = "none"
          /\ r.successfully_processed = Len(r.articles)
          /\ r.total_articles_found = Len(links_of[n])
          /\ r.successfully_processed <= r.total_articles_found

\* a step of the candidate loop over the candidate article_links[k]
LoopStep == AtCandidate /\ k' = k + 1

\* the positions of an effect in the effects of a pass
Positions(pass, effect) == {m \in 1..Len(pass) : pass[m] = effect}

\* each of the two effects happens once, the first before the second
OnceInOrder(pass, first, second) ==
  /\ Cardinality(Positions(pass, first)) = 1
  /\ Cardinality(Positions(pass, second)) = 1
  /\ \A a \in Positions(pass, first) : \A b \in Positions(pass, second) : a < b

\* the inter-article waits of a wait log
InterArticle(log) == {w \in log : w.kind = "inter_article"}

\* C17: a pass of the loop over a candidate that is in the seen-set or
\* outside the window appends no record, adds nothing to the seen-set and
\* runs no inter-article delay; a pass over any other candidate appends its
\* record, then adds its URL to the seen-set, then runs exactly one
\* inter-article delay.
C17_EffectsOnlyOnAccept ==
  [][LoopStep =>
       IF article_links[k] \in seen_set \/ ~InWindow(web, article_links[k])
         THEN /\ articles' = articles
              /\ seen_set' = seen_set
              /\ article_delays' = article_delays
              /\ Positions(effects', "random_delay") = {}
              /\ InterArticle(waits') = InterArticle(waits)
         ELSE /\ Len(articles') = Len(articles) + 1
              /\ SubSeq(articles', 1, Len(articles)) = articles
              /\ articles'[Len(articles')].url = article_links[k]
              /\ seen_set' = seen_set \cup {article_links[k]}
              /\ article_delays' = article_delays + 1
              /\ InterArticle(waits') # {}
              /\ OnceInOrder(effects', "append", "add_seen")
              /\ OnceInOrder(effects', "add_seen", "random_delay")]_vars

\* the first candidate of a site was fetched and rejected by the window,
\* the second was accepted: one record, one inter-article delay
C17_Witness ==
  /\ pc = "loop"
  /\ k = 3
  /\ article_links[1] \notin seen_set
  /\ article_links[2] \in seen_set
  /\ Len(articles) = 1
  /\ articles[1].url = article_links[2]
  /\ article_delays = 1
  /\ Positions(effects, "random_delay") # {}

\* C18: every navigation to an article URL comes after the seen-set test
\* of its pass, and the URL navigated to is not in the seen-set at that
\* moment and is not the url of a record already captured in the job.
C18_SeenBeforeFetch ==
  [][fetched' # fetched =>
       /\ Len(fetched') = Len(fetched) + 1
       /\ SubSeq(fetched', 1, Len(fetched)) = fetched
       /\ fetched'[Len(fetched')] \notin seen_set
       /\ fetched'[Len(fetched')] \notin RecordUrls
       /\ \A n \in 1..Len(articles) : articles[n].url # fetched'[Len(fetched')]
       /\ OnceInOrder(effects', "in_seen", "goto")]_vars

\* the second site met, among its candidates, a URL the first site had
\* captured, and the job navigated to that URL once
C18_Witness ==
  /\ Returned
  /\ Len(results) = 2
  /\ 2 \in DOMAIN links_of
  /\ \E m \in 1..Len(results[1].value.articles) :
       /\ \E c \in 1..Len(links_of[2]) :
            links_of[2][c] = results[1].value.articles[m].url
       /\ Cardinality({n \in 1..Len(fetched) :
                         fetched[n] = results[1].value.articles[m].url}) = 1

\* the inter-site waits of a wait log
InterSite(log) == {w \in log : w.kind = "inter_site"}

\* C19: when a batch of n >= 1 seed URLs has been processed, exactly n - 1
\* inter-site delays have run, each sampled from delay_range, whatever the
\* outcome of each site.
C19_DelaysBetweenSites ==
  (Returned /\ Len(urls) >= 1) =>
    /\ site_delays = Len(urls) - 1
    /\ \A w \in InterSite(waits) :
         w.min = delay_range[1] /\ w.max = delay_range[2]

\* the links of a seed page the classifier accepts, in document order
RECURSIVE DiscoveryOrder(_, _, _)
DiscoveryOrder(seed, accepted, n) ==
  IF n > Len(Anchors(seed)) THEN <<>>
  ELSE LET link == urljoin(seed, Anchors(seed)[n])
       IN  (IF link \in accepted THEN <<link>> ELSE <<>>)
             \o DiscoveryOrder(seed, accepted, n + 1)

\* the classifier-accepted links of a seed page
Accepted(seed) == {candidates[seed][n] : n \in 1..Len(candidates[seed])}

\* C20: the candidate list the loop works on has at most
\* max_articles_per_url entries and consists of the first
\* max_articles_per_url classifier-accepted links of the seed page, in the
\* order of their discovery.
C20_DiscoveryOrder ==
  pc = "loop" =>
    LET discovered == DiscoveryOrder(urls[i], Accepted(urls[i]), 1)
    IN  /\ Len(article_links) <= max_articles_per_url
        /\ \A n \in 1..Len(article_links) :
             n <= Len(discovered) /\ article_links[n] = discovered[n]

\* the selector a round must click: the first in list order whose element
\* is found, is visible and takes the click
FirstClickable(outcomes) ==
  LET live == {n \in 1..Len(load_more_selectors) : outcomes[n] = "clicked"}
  IN  IF live = {} THEN <<>>
      ELSE <<load_more_selectors[CHOOSE n \in live : \A m \in live : n <= m]>>

\* the call is over, by return or by exception
ScrollEnded == scr.pc \in {"returned", "raised"}

\* C21 as stated: the call runs at most max_scrolls rounds, clicks in each
\* round at most one element, the first selector that is found, visible
\* and clicked without error, and ends before max_scrolls rounds only in a
\* round where nothing was clicked and the height was unchanged.
C21_EarlyExitOnlyStable ==
  /\ scr.pc # "off" => scr.scroll_attempt <= scr.max_scrolls
  /\ scr.pc # "off" =>
       (scr.last.fault # "scroll_to" =>
          scr.last.clicked = FirstClickable(scr.last.outcomes))
  /\ (ScrollEnded /\ scr.scroll_attempt < scr.max_scrolls) =>
       /\ scr.last.clicked = <<>>
       /\ scr.last.compared
       /\ scr.last.old_height = scr.last.new_height

\* C21: the call runs at most max_scrolls rounds; a round clicks at most one
\* element, the first selector that is found, visible and clicked without
\* error, and no failure of a selector ends the call; the call returns
\* before max_scrolls rounds only in a round where nothing was clicked and
\* the height was unchanged; it ends by an exception only when a
\* page.evaluate call of the round raised.
C21_ReturnsEarlyOnlyStable ==
  scr.pc # "off" =>
    /\ scr.scroll_attempt <= scr.max_scrolls
    /\ Len(scr.last.clicked) <= 1
    /\ scr.last.fault # "scroll_to" =>
         scr.last.clicked = FirstClickable(scr.last.outcomes)
    /\ (scr.pc = "returned" /\ scr.scroll_attempt < scr.max_scrolls) =>
         /\ scr.last.clicked = <<>>
         /\ scr.last.compared
         /\ scr.last.old_height = scr.last.new_height
    /\ scr.pc = "raised" =>
         \/ scr.last.fault = "scroll_to"
         \/ scr.last.fault \in {"old_height", "new_height"}
              /\ scr.last.clicked = <<>>
    /\ (scr.last.fault = "none" /\ scr.scroll_attempt < scr.max_scrolls
          /\ (scr.last.clicked # <<>>
                \/ scr.last.old_height # scr.last.new_height)) =>
         scr.pc = "loop"

\* a call of five rounds returned after its second round: the first
\* selector raised, the last was hidden, nothing was clicked and the height
\* stayed the same
C21_Witness ==
  /\ scr.pc = "returned"
  /\ scr.max_scrolls = DefaultMaxScrolls
  /\ scr.scroll_attempt = 2
  /\ scr.last.outcomes[1] = "error"
  /\ scr.last.outcomes[Len(load_more_selectors)] = "hidden"
  /\ scr.last.clicked = <<>>
  /\ scr.last.old_height = scr.last.new_height

\* C23: the noise removal of the body strategy leaves the other fields
\* alone: title, date and image of the record are what the title, date and
\* image strategies return on the document as it was parsed.
C23_FieldsOfUnmodifiedPage ==
  dom.pc = "done" =>
    /\ dom.record.title = _extract_title_generic(TitleSoup(dom.soup))
    /\ dom.record.date = _extract_date_generic(dom.soup, dom.url)
    /\ dom.record.image = _extract_image_generic(dom.soup, dom.url)

\* C22: the exclude stage looks at the path only: a URL of the seed's host
\* whose path matches no definite-exclude pattern passes the exclude stage
\* whatever its scheme, host name and query string are, so that when it
\* carries a strong signal the classifier accepts it.
C22_ExcludeByPathOnly ==
  (/\ cls.pc = "done"
   /\ cls.url # ""
   /\ ~StartsWith(cls.url, "#")
   /\ ~Contains(cls.url, "javascript:")
   /\ Netloc(cls.url) = Netloc(cls.base)
   /\ ~MatchesExclude(UrlPath(cls.url))
   /\ MatchesStrong(cls.url))
    => cls.verdict

\* the number of navigations to an article URL in the job so far
Fetches(article_url) ==
  Cardinality({n \in 1..Len(fetched) : fetched[n] = article_url})

\* C24: within one job no article URL is navigated to more than once, over
\* all sites of the batch and all attempts of each site, the URLs rejected
\* by the window and the URLs of retried site runs included.
C24_FetchedOnce ==
  \A n \in 1..Len(fetched) : Fetches(fetched[n]) <= 1

====
